---- MODULE Spec2Model ----
(***************************************************************************)
(* Model of web/bus_collection_builder.py: build_bus_stop_collections      *)
(* resolves bus stop records (platforms and stop positions) into           *)
(* platform/stop collections: area chaining, name grouping, numbered       *)
(* suffix expansion and platform<->stop assignment.                        *)
(*                                                                         *)
(* Records are referenced by their index in bus_stops (the code keeps      *)
(* references to the input objects).  Coordinates lie on one meridian:     *)
(* latLng is the position along it in grid units, and the great-circle     *)
(* distance of two records is the absolute difference of their positions.  *)
(* Group names are sequences of one-character strings, so that split,      *)
(* isdecimal and join are computed as Python computes them.                *)
(***************************************************************************)
EXTENDS Integers, Sequences, FiniteSets, TLC

VARIABLES
    bus_stops,     \* the argument of build_bus_stop_collections
    pc,            \* position in build_bus_stop_collections
    i,             \* index of the record the area loop handles next
    areas,         \* areas: record index -> index of the root of its area
    area_groups,   \* area_groups, in insertion order: [key: root, val: members]
    ai,            \* index of the area the outer loop handles next
    name_groups,   \* name_groups of the current area: [key: name, val: members]
    gi,            \* index of the name group the matching loop handles next
    collections,   \* the collections list: [platform, stop], None or an index
    warnings,      \* the group names printed in a warning, in order
    areaLog,       \* history: per handled area, its name groups at each stage
    groupLog       \* history: per handled name group, what it emitted

vars == <<bus_stops, pc, i, areas, area_groups, ai, name_groups, gi,
          collections, warnings, areaLog, groupLog>>

----------------------------------------------------------------------------
(* Bounds of the input families.                                           *)

RowStops == 3       \* records per input, rows of records
AreaStops == 5      \* records per input, area chaining
AreaMaxPos == 4     \* positions 0..AreaMaxPos, area chaining
ChainStops == 5     \* records per input, chaining of distinct positions
ChainMaxPos == 4    \* positions 0..ChainMaxPos, chaining of distinct positions
NameStops == 3      \* records per input, name grouping
MatchStops == 6     \* records per input, matching

----------------------------------------------------------------------------
(* Values.                                                                 *)

None == 0
PLATFORM == "platform"
STOP_POSITION == "stop_position"
BusStopTag == "bus_stop"
Space == " "
DecimalChars == {"0", "1", "2", "3", "4", "5", "6", "7", "8", "9"}

\* BUS_COLLECTION_SEARCH_AREA, in grid units of the meridian
BUS_COLLECTION_SEARCH_AREA == 2

Range(s) == {s[k] : k \in 1..Len(s)}
Repeat(x, n) == [k \in 1..n |-> x]

RECURSIVE SumSeq(_)
SumSeq(s) == IF s = <<>> THEN 0 ELSE Head(s) + SumSeq(Tail(s))

Abs(x) == IF x < 0 THEN -x ELSE x

\* great-circle distance of two coordinates on the meridian
haversine_distance(a, b) == Abs(a - b)

Dist(a, b) == haversine_distance(bus_stops[a].latLng, bus_stops[b].latLng)

----------------------------------------------------------------------------
(* Insertion-ordered dictionaries: sequences of [key, val].                *)

HasKey(d, k) == \E x \in 1..Len(d) : d[x].key = k
Get(d, k) == d[CHOOSE x \in 1..Len(d) : d[x].key = k].val
Put(d, k, v) ==
    IF HasKey(d, k)
    THEN [x \in 1..Len(d) |-> IF d[x].key = k THEN [key |-> k, val |-> v] ELSE d[x]]
    ELSE Append(d, [key |-> k, val |-> v])
\* defaultdict(list)[k].append(v)
DictAppend(d, k, v) == Put(d, k, IF HasKey(d, k) THEN Append(Get(d, k), v) ELSE <<v>>)
Pop(d, k) == SelectSeq(d, LAMBDA e : e.key # k)
Keys(d) == [x \in 1..Len(d) |-> d[x].key]

----------------------------------------------------------------------------
(* Strings.                                                                *)

RECURSIVE split(_, _)
split(s, sep) ==
    IF s = <<>> THEN << <<>> >>
    ELSE LET rest == split(Tail(s), sep)
         IN  IF Head(s) = sep
             THEN << <<>> >> \o rest
             ELSE << <<Head(s)>> \o Head(rest) >> \o Tail(rest)

isdecimal(s) == s # <<>> /\ \A k \in 1..Len(s) : s[k] \in DecimalChars

RECURSIVE join(_, _)
join(parts, sep) ==
    IF parts = <<>> THEN <<>>
    ELSE IF Len(parts) = 1 THEN Head(parts)
    ELSE Head(parts) \o <<sep>> \o join(Tail(parts), sep)

----------------------------------------------------------------------------
(* Area chaining, lines 81-107.                                            *)

\* BallTree.query_radius(..., sort_results=True) for record q: the records
\* within the search radius by ascending distance.  The order of records
\* at equal distance is not specified by the library: any order.
RECURSIVE SortedByDistance(_, _)
SortedByDistance(q, S) ==
    IF S = {} THEN {<<>>}
    ELSE LET nearest == {j \in S : \A k \in S : Dist(q, j) <= Dist(q, k)}
         IN  UNION {{<<j>> \o rest : rest \in SortedByDistance(q, S \ {j})} : j \in nearest}

query_radius(q) ==
    SortedByDistance(q, {j \in 1..Len(bus_stops) : Dist(q, j) <= BUS_COLLECTION_SEARCH_AREA})

\* FirstArea with line 99 taking the neighbour instead of the neighbour's area
RECURSIVE FirstAreaNeighbour(_, _, _)
FirstAreaNeighbour(indices, ar, self) ==
    IF indices = <<>> THEN self
    ELSE IF Head(indices) \in DOMAIN ar THEN Head(indices)
    ELSE FirstAreaNeighbour(Tail(indices), ar, self)

\* the for/else of lines 97-102: the area of the first neighbour that has one
RECURSIVE FirstArea(_, _, _)
FirstArea(indices, ar, self) ==
    IF indices = <<>> THEN self
    ELSE IF Head(indices) \in DOMAIN ar THEN ar[Head(indices)]
    ELSE FirstArea(Tail(indices), ar, self)

\* lines 104-107
RECURSIVE GroupAreas(_, _, _)
GroupAreas(ar, m, acc) ==
    IF m > Len(bus_stops) THEN acc
    ELSE GroupAreas(ar, m + 1, DictAppend(acc, ar[m], m))

----------------------------------------------------------------------------
(* Name grouping and numbered-suffix expansion, lines 113-148.             *)

\* lines 113-115
RECURSIVE GroupByName(_, _)
GroupByName(area_group, acc) ==
    IF area_group = <<>> THEN acc
    ELSE GroupByName(Tail(area_group),
                     DictAppend(acc, bus_stops[Head(area_group)].groupName, Head(area_group)))

\* DiscardUnnamed without the test of line 118
DiscardUnnamedAlways(ng) == Pop(ng, <<>>)

\* DiscardUnnamed with line 119 left out
DiscardUnnamedNever(ng) == ng

\* lines 118-119
DiscardUnnamed(ng) == IF Len(ng) > 1 THEN Pop(ng, <<>>) ELSE ng

\* lines 122-129
RECURSIVE PrefixMap(_, _)
PrefixMap(keys, acc) ==
    IF keys = <<>> THEN acc
    ELSE LET parts == split(Head(keys), Space)
         IN  IF Len(parts) > 1 /\ isdecimal(parts[Len(parts)])
             THEN PrefixMap(Tail(keys),
                            DictAppend(acc, join(SubSeq(parts, 1, Len(parts) - 1), Space),
                                       Head(keys)))
             ELSE PrefixMap(Tail(keys), acc)

\* lines 140-145: the prefix group's records go to a numbered group that
\* has (by now) no record of their kind
RECURSIVE AppendMissing(_, _)
AppendMissing(name_group, prefix_name_group) ==
    IF prefix_name_group = <<>> THEN name_group
    ELSE LET p == Head(prefix_name_group)
             has == \E x \in 1..Len(name_group) :
                        bus_stops[name_group[x]].public_transport
                            = bus_stops[p].public_transport
         IN  AppendMissing(IF has THEN name_group ELSE Append(name_group, p),
                           Tail(prefix_name_group))

\* lines 137-145 for one prefix; name_groups is a defaultdict, so a missing
\* numbered key is created empty
RECURSIVE ExpandInto(_, _, _)
ExpandInto(r, name_group_keys, prefix_name_group) ==
    IF name_group_keys = <<>> THEN r
    ELSE LET k == Head(name_group_keys)
             old == IF HasKey(r.groups, k) THEN Get(r.groups, k) ELSE <<>>
             new == AppendMissing(old, prefix_name_group)
         IN  ExpandInto([groups |-> Put(r.groups, k, new),
                         success |-> r.success \/ new # old],
                        Tail(name_group_keys), prefix_name_group)

\* lines 131-148
RECURSIVE ExpandPrefixes(_, _)
ExpandPrefixes(ng, prefix_map) ==
    IF prefix_map = <<>> THEN ng
    ELSE LET e == Head(prefix_map)
         IN  IF ~HasKey(ng, e.key) THEN ExpandPrefixes(ng, Tail(prefix_map))
             ELSE LET r == ExpandInto([groups |-> ng, success |-> FALSE],
                                      e.val, Get(ng, e.key))
                  IN  ExpandPrefixes(IF r.success THEN Pop(r.groups, e.key) ELSE r.groups,
                                     Tail(prefix_map))

----------------------------------------------------------------------------
(* Matching, lines 17-69 and 151-211.                                      *)

\* stable sort by id: list.sort(key=lambda p: p.id)
RECURSIVE InsertById(_, _)
InsertById(sorted, e) ==
    IF sorted = <<>> THEN <<e>>
    ELSE IF bus_stops[e].id < bus_stops[Head(sorted)].id THEN <<e>> \o sorted
    ELSE <<Head(sorted)>> \o InsertById(Tail(sorted), e)

\* SortById with the sort of lines 164-165 left out
SortByIdUnsorted(s) == s

RECURSIVE SortById(_)
SortById(s) ==
    IF s = <<>> THEN <<>>
    ELSE InsertById(SortById(SubSeq(s, 1, Len(s) - 1)), s[Len(s)])

_pick_best(elements) ==
    IF elements = <<>> THEN [explicit |-> <<>>, implicit |-> <<>>]
    ELSE [explicit |-> SelectSeq(elements, LAMBDA e : bus_stops[e].highway = BusStopTag),
          implicit |-> SelectSeq(elements, LAMBDA e : bus_stops[e].highway # BusStopTag)]

\* BallTree.query(k=1): per primary, the position of a nearest element;
\* which one among several nearest is not specified
NearestQuery(primary, elements) ==
    {q \in [1..Len(primary) -> 1..Len(elements)] :
        \A k \in 1..Len(primary) : \A e \in 1..Len(elements) :
            Dist(primary[k], elements[q[k]]) <= Dist(primary[k], elements[e])}

\* scipy linear_sum_assignment on the distance matrix of lines 46-51, for
\* no more rows than columns: a column per row, no column twice, of minimal
\* total cost; which one among several minimal is not specified.  Indexed
\* by row, as in sorted(zip(row_ind, col_ind)).
AssignmentCost(primary, elements, f) ==
    SumSeq([k \in 1..Len(primary) |-> Dist(primary[k], elements[f[k]])])

linear_sum_assignment(primary, elements) ==
    LET one_to_one == {f \in [1..Len(primary) -> 1..Len(elements)] :
                          \A a, b \in 1..Len(primary) : a # b => f[a] # f[b]}
    IN  {f \in one_to_one :
            \A g \in one_to_one :
                AssignmentCost(primary, elements, f) <= AssignmentCost(primary, elements, g)}

\* _assign with line 30 comparing by <= instead of <
_assign_OffByOne(primary, elements, element_reuse) ==
    IF Len(elements) >= 2
    THEN IF Len(elements) <= Len(primary)
         THEN IF ~element_reuse
              THEN {Repeat(None, Len(primary))}
              ELSE {[k \in 1..Len(primary) |-> elements[q[k]]] :
                        q \in NearestQuery(primary, elements)}
         ELSE {[k \in 1..Len(primary) |-> elements[f[k]]] :
                   f \in linear_sum_assignment(primary, elements)}
    ELSE IF Len(elements) = 1
    THEN IF ~element_reuse /\ Len(primary) > 1
         THEN {Repeat(None, Len(primary))}
         ELSE {Repeat(elements[1], Len(primary))}
    ELSE {Repeat(None, Len(primary))}

\* _assign with the test of line 64 left out
_assign_Broadcast(primary, elements, element_reuse) ==
    IF Len(elements) >= 2
    THEN IF Len(elements) < Len(primary)
         THEN IF ~element_reuse
              THEN {Repeat(None, Len(primary))}
              ELSE {[k \in 1..Len(primary) |-> elements[q[k]]] :
                        q \in NearestQuery(primary, elements)}
         ELSE {[k \in 1..Len(primary) |-> elements[f[k]]] :
                   f \in linear_sum_assignment(primary, elements)}
    ELSE IF Len(elements) = 1
    THEN {Repeat(elements[1], Len(primary))}
    ELSE {Repeat(None, Len(primary))}

\* lines 27-69: the possible sequences of yielded elements
_assign(primary, elements, element_reuse) ==
    IF Len(elements) >= 2
    THEN IF Len(elements) < Len(primary)
         THEN IF ~element_reuse
              THEN {Repeat(None, Len(primary))}
              ELSE {[k \in 1..Len(primary) |-> elements[q[k]]] :
                        q \in NearestQuery(primary, elements)}
         ELSE {[k \in 1..Len(primary) |-> elements[f[k]]] :
                   f \in linear_sum_assignment(primary, elements)}
    ELSE IF Len(elements) = 1
    THEN IF ~element_reuse /\ Len(primary) > 1
         THEN {Repeat(None, Len(primary))}
         ELSE {Repeat(elements[1], Len(primary))}
    ELSE {Repeat(None, Len(primary))}

\* zip(primary, assigned) into collections, lines 174-177 and 182-185
\* StopPrimary with the keywords of lines 184-185 exchanged
StopPrimarySwapped(primary, assigned) ==
    [k \in 1..Len(primary) |-> [platform |-> primary[k], stop |-> assigned[k]]]

PlatformPrimary(primary, assigned) ==
    [k \in 1..Len(primary) |-> [platform |-> primary[k], stop |-> assigned[k]]]
StopPrimary(primary, assigned) ==
    [k \in 1..Len(primary) |-> [platform |-> assigned[k], stop |-> primary[k]]]

IsPlatform(e) == bus_stops[e].public_transport = PLATFORM
IsStop(e) == bus_stops[e].public_transport = STOP_POSITION

\* lines 152-165; public_transport is Platform or StopPosition, so line
\* 161 is not reached
Platforms(name_group) == SortById(SelectSeq(name_group, IsPlatform))
Stops(name_group) == SortById(SelectSeq(name_group, IsStop))

\* line 170
Ambiguous(name_group) ==
    /\ _pick_best(Platforms(name_group)).explicit # <<>>
    /\ _pick_best(Stops(name_group)).explicit # <<>>

\* what one branch of lines 173-211 does: the primaries, the candidates
\* given to _assign (none in the branches that do not call it), what
\* _assign yielded and the collections appended
Outcome(branch, primary, candidates, reuse, yielded, emitted) ==
    [branch |-> branch, primary |-> primary, candidates |-> candidates,
     reuse |-> reuse, yielded |-> yielded, emitted |-> emitted]

\* lines 173-179
ExplicitPlatformBranch(platforms_explicit, stops) ==
    {Outcome(1, platforms_explicit, stops, TRUE, a, PlatformPrimary(platforms_explicit, a)) :
        a \in _assign(platforms_explicit, stops, TRUE)}

\* ExplicitStopBranch with element_reuse=True in line 182
ExplicitStopBranchReuse(stops_explicit, platforms) ==
    {Outcome(2, stops_explicit, platforms, TRUE, a, StopPrimary(stops_explicit, a)) :
        a \in _assign(stops_explicit, platforms, TRUE)}

\* lines 181-187
ExplicitStopBranch(stops_explicit, platforms) ==
    {Outcome(2, stops_explicit, platforms, FALSE, a, StopPrimary(stops_explicit, a)) :
        a \in _assign(stops_explicit, platforms, FALSE)}

\* lines 189-195
ImplicitBranch(platforms_implicit, stops) ==
    {Outcome(3, platforms_implicit, stops, TRUE, a, PlatformPrimary(platforms_implicit, a)) :
        a \in _assign(platforms_implicit, stops, TRUE)}

\* lines 197-203
PlatformOnlyBranch(platforms_implicit) ==
    LET none == Repeat(None, Len(platforms_implicit))
    IN  {Outcome(4, platforms_implicit, <<>>, FALSE, none,
                 PlatformPrimary(platforms_implicit, none))}

\* lines 205-211
StopOnlyBranch(stops_implicit) ==
    LET none == Repeat(None, Len(stops_implicit))
    IN  {Outcome(5, stops_implicit, <<>>, FALSE, none, StopPrimary(stops_implicit, none))}

\* lines 151-211 for one name group: the possible outcomes
MatchGroup(name_group) ==
    LET platforms == Platforms(name_group)
        stops == Stops(name_group)
        platforms_explicit == _pick_best(platforms).explicit
        platforms_implicit == _pick_best(platforms).implicit
        stops_explicit == _pick_best(stops).explicit
        stops_implicit == _pick_best(stops).implicit
    IN  IF platforms_explicit # <<>> THEN ExplicitPlatformBranch(platforms_explicit, stops)
        ELSE IF stops_explicit # <<>> THEN ExplicitStopBranch(stops_explicit, platforms)
        ELSE IF platforms_implicit # <<>> /\ stops_implicit # <<>>
        THEN ImplicitBranch(platforms_implicit, stops)
        ELSE IF platforms_implicit # <<>> THEN PlatformOnlyBranch(platforms_implicit)
        ELSE IF stops_implicit # <<>> THEN StopOnlyBranch(stops_implicit)
        ELSE {Outcome(0, <<>>, <<>>, FALSE, <<>>, <<>>)}

----------------------------------------------------------------------------
(* Inputs.                                                                 *)

Kinds == {<<PLATFORM, BusStopTag>>, <<PLATFORM, "">>,
          <<STOP_POSITION, BusStopTag>>, <<STOP_POSITION, "">>}
ImplicitKinds == {<<PLATFORM, "">>, <<STOP_POSITION, "">>}

Unnamed == <<>>
Elm == <<"E">>
Elm1 == <<"E", " ", "1">>
Elm2 == <<"E", " ", "2">>
Names == {Unnamed, Elm, Elm1, Elm2}

BusStop(id, latLng, groupName, kind) ==
    [id |-> id, latLng |-> latLng, groupName |-> groupName,
     public_transport |-> kind[1], highway |-> kind[2]]

\* ids are distinct, ascending or descending along the list
IdAt(order, k, m) == IF order = "asc" THEN k ELSE m + 1 - k
IdOrders(orders, m) == IF m < 2 THEN {"asc"} ELSE orders

\* bus_stops is a list of at most n records with positions in P, names in
\* N and kinds in K
Inputs(n, P, N, K, orders) ==
    \E m \in 0..n :
        \E b \in [1..m -> P \X N \X K], o \in IdOrders(orders, m) :
            bus_stops = [k \in 1..m |-> BusStop(IdAt(o, k, m), b[k][1], b[k][2], b[k][3])]

\* the position of the k-th record of a row: one grid unit after the
\* record before it, or farther than the search radius where the row breaks
RowPosition(breaks, k) ==
    k + (BUS_COLLECTION_SEARCH_AREA + 1) * Cardinality({j \in 2..k : breaks[j]})

\* bus_stops is a list of at most n records in a row, with names in N and
\* kinds in K
RowInputs(n, N, K, orders, breaks) ==
    \E m \in 0..n :
        \E b \in [1..m -> N \X K], o \in IdOrders(orders, m), g \in [2..m -> breaks] :
            bus_stops = [k \in 1..m |->
                            BusStop(IdAt(o, k, m), RowPosition(g, k), b[k][1], b[k][2])]

DistinctPositions ==
    \A a, b \in 1..Len(bus_stops) : a # b => bus_stops[a].latLng # bus_stops[b].latLng

\* the locals of build_bus_stop_collections on entry
Start ==
    /\ pc = "area"
    /\ i = 1
    /\ areas = <<>>
    /\ area_groups = <<>>
    /\ ai = 1
    /\ name_groups = <<>>
    /\ gi = 1
    /\ collections = <<>>
    /\ warnings = <<>>
    /\ areaLog = <<>>
    /\ groupLog = <<>>

\* unbroken rows of records of every name and kind
Init == RowInputs(RowStops, Names, Kinds, {"asc"}, {FALSE}) /\ Start

\* unnamed implicit platforms anywhere on the grid: only positions matter
InitArea ==
    Inputs(AreaStops, 0..AreaMaxPos, {Unnamed}, {<<PLATFORM, "">>}, {"asc"}) /\ Start

\* the same, no two records at the same position
InitChain ==
    /\ Inputs(ChainStops, 0..ChainMaxPos, {Unnamed}, {<<PLATFORM, "">>}, {"asc"})
    /\ DistinctPositions
    /\ Start

\* rows, broken anywhere, of implicit records of every name
InitName == RowInputs(NameStops, Names, ImplicitKinds, {"asc"}, BOOLEAN) /\ Start

\* unbroken rows of records of one name and every kind, ids in and against
\* list order
InitMatch == RowInputs(MatchStops, {Elm}, Kinds, {"asc", "desc"}, {FALSE}) /\ Start

----------------
(* build_bus_stop_collections, step by step.                               *)

\* lines 78-79
ReturnEmpty ==
    /\ pc = "area"
    /\ bus_stops = <<>>
    /\ pc' = "done"
    /\ UNCHANGED <<bus_stops, i, areas, area_groups, ai, name_groups, gi,
                   collections, warnings, areaLog, groupLog>>

\* lines 96-102, one record
AssignArea ==
    /\ pc = "area"
    /\ i <= Len(bus_stops)
    /\ \E indices \in query_radius(i) :
           areas' = areas @@ (i :> FirstArea(Tail(indices), areas, i))
    /\ i' = i + 1
    /\ UNCHANGED <<bus_stops, pc, area_groups, ai, name_groups, gi,
                   collections, warnings, areaLog, groupLog>>

\* lines 104-109
BuildAreaGroups ==
    /\ pc = "area"
    /\ bus_stops # <<>>
    /\ i > Len(bus_stops)
    /\ area_groups' = GroupAreas(areas, 1, <<>>)
    /\ ai' = 1
    /\ pc' = "names"
    /\ UNCHANGED <<bus_stops, i, areas, name_groups, gi,
                   collections, warnings, areaLog, groupLog>>

\* lines 111-148, one area
BuildNameGroups ==
    /\ pc = "names"
    /\ ai <= Len(area_groups)
    /\ LET area_group == area_groups[ai].val
           grouped == GroupByName(area_group, <<>>)
           kept == DiscardUnnamed(grouped)
           final == ExpandPrefixes(kept, PrefixMap(Keys(kept), <<>>))
       IN  /\ name_groups' = final
           /\ areaLog' = Append(areaLog, [area |-> area_groups[ai].key,
                                          members |-> area_group,
                                          grouped |-> grouped,
                                          kept |-> kept,
                                          final |-> final])
           /\ gi' = 1
           /\ pc' = IF final = <<>>
                    THEN (IF ai = Len(area_groups) THEN "done" ELSE "names")
                    ELSE "match"
           /\ ai' = IF final = <<>> THEN ai + 1 ELSE ai
    /\ UNCHANGED <<bus_stops, i, areas, area_groups, collections, warnings, groupLog>>

\* lines 151-211, one name group; after the last group of the last area,
\* line 213
MatchNameGroup ==
    /\ pc = "match"
    /\ gi <= Len(name_groups)
    /\ LET name_group_key == name_groups[gi].key
           name_group == name_groups[gi].val
       IN  /\ warnings' = IF Ambiguous(name_group)
                          THEN Append(warnings, name_group_key) ELSE warnings
           /\ \E o \in MatchGroup(name_group) :
                  /\ collections' = collections \o o.emitted
                  /\ groupLog' = Append(groupLog, [area |-> area_groups[ai].key,
                                                   key |-> name_group_key,
                                                   members |-> name_group,
                                                   warned |-> Ambiguous(name_group),
                                                   outcome |-> o])
    /\ gi' = gi + 1
    /\ ai' = IF gi = Len(name_groups) THEN ai + 1 ELSE ai
    /\ pc' = IF gi < Len(name_groups) THEN "match"
             ELSE IF ai < Len(area_groups) THEN "names"
             ELSE "done"
    /\ UNCHANGED <<bus_stops, i, areas, area_groups, name_groups, areaLog>>

Next ==
    \/ ReturnEmpty
    \/ AssignArea
    \/ BuildAreaGroups
    \/ BuildNameGroups
    \/ MatchNameGroup

Spec == Init /\ [][Next]_vars
SpecArea == InitArea /\ [][Next]_vars
SpecChain == InitChain /\ [][Next]_vars
SpecName == InitName /\ [][Next]_vars
SpecMatch == InitMatch /\ [][Next]_vars

----------------------------------------------------------------------------
(* Properties.                                                             *)

Done == pc = "done"
AreasAssigned == DOMAIN areas = 1..Len(bus_stops)
Indices == 1..Len(bus_stops)
WithinRadius(a, b) == Dist(a, b) <= BUS_COLLECTION_SEARCH_AREA

\* the number of collections that reference record r
Uses(r) ==
    Cardinality({k \in 1..Len(collections) : collections[k].platform = r})
    + Cardinality({k \in 1..Len(collections) : collections[k].stop = r})
Referenced(r) == Uses(r) > 0

\* C1: every collection has at least one side populated; its platform
\* side, when not None, is an input record of category Platform, and its
\* stop side, when not None, an input record of category StopPosition.
C1_CollectionSides ==
    \A k \in 1..Len(collections) :
        LET c == collections[k]
        IN  /\ c.platform # None \/ c.stop # None
            /\ c.platform # None =>
                   /\ c.platform \in Indices
                   /\ bus_stops[c.platform].public_transport = "platform"
            /\ c.stop # None =>
                   /\ c.stop \in Indices
                   /\ bus_stops[c.stop].public_transport = "stop_position"

\* a finished run that returned a platform with its stop and a stop without
\* platform
C1_Witness ==
    /\ Done
    /\ \E k \in 1..Len(collections) :
           collections[k].platform # None /\ collections[k].stop # None
    /\ \E k \in 1..Len(collections) :
           collections[k].platform = None /\ collections[k].stop # None

\* C4, as claimed: whenever A, B, C come in this order in the input, A and
\* B are within the search radius and B and C are within the search radius,
\* the three are assigned the same area.
C4_ChainAlways ==
    AreasAssigned =>
        \A a, b, c \in Indices :
            a < b /\ b < c /\ WithinRadius(a, b) /\ WithinRadius(b, c)
                => areas[a] = areas[b] /\ areas[b] = areas[c]

\* C4, amended: the same for A and C farther apart than the radius, when
\* A is the only record before B within the radius of B and B is the only
\* record before C within the radius of C.
C4_ChainThroughOnlyNeighbour ==
    AreasAssigned =>
        \A a, b, c \in Indices :
            /\ a < b /\ b < c
            /\ WithinRadius(a, b) /\ WithinRadius(b, c) /\ ~WithinRadius(a, c)
            /\ \A j \in 1..(b - 1) : WithinRadius(j, b) => j = a
            /\ \A j \in 1..(c - 1) : WithinRadius(j, c) => j = b
            => areas[a] = areas[b] /\ areas[b] = areas[c]

\* A, B, C chained as in the amended C4, in an input of more records
C4_Witness ==
    /\ AreasAssigned
    /\ Len(bus_stops) > 3
    /\ \E a, b, c \in Indices :
           /\ a < b /\ b < c
           /\ WithinRadius(a, b) /\ WithinRadius(b, c) /\ ~WithinRadius(a, c)
           /\ \A j \in 1..(b - 1) : WithinRadius(j, b) => j = a
           /\ \A j \in 1..(c - 1) : WithinRadius(j, c) => j = b
           /\ areas[a] = a /\ areas[b] = a /\ areas[c] = a

\* C9, as claimed: record i is attached to the area of a nearest record
\* before it within the search radius, and is the root of a new area if and
\* only if no record before it lies within the search radius; also when
\* several records share the same coordinates.
C9_AttachToNearestEarlier ==
    \A r \in DOMAIN areas :
        LET earlier == {j \in 1..(r - 1) : WithinRadius(j, r)}
        IN  /\ areas[r] = r <=> earlier = {}
            /\ earlier # {} =>
                   \E j \in earlier :
                       /\ \A k \in earlier : Dist(r, j) <= Dist(r, k)
                       /\ areas[r] = areas[j]

\* the groups matched so far in which _assign ran its minimum-cost case
MinCostCalls ==
    {g \in Range(groupLog) :
        /\ g.outcome.branch \in {1, 2, 3}
        /\ Len(g.outcome.candidates) >= 2
        /\ Len(g.outcome.candidates) >= Len(g.outcome.primary)}

\* the one-to-one choices of a candidate per primary
Pairings(primary, candidates) ==
    {f \in [1..Len(primary) -> Range(candidates)] :
        \A a, b \in 1..Len(primary) : a # b => f[a] # f[b]}
TotalDistance(primary, f) == SumSeq([k \in 1..Len(primary) |-> Dist(primary[k], f[k])])

\* the record on the side of collection c that the primaries of branch b
\* are not on
OtherSide(c, b) == IF b = 2 THEN c.platform ELSE c.stop
PrimarySide(c, b) == IF b = 2 THEN c.stop ELSE c.platform

\* C5: with at least 2 candidates and at least as many candidates as
\* primaries, _assign yields one candidate per primary in primary order, no
\* candidate twice, of minimal total distance over all one-to-one
\* assignments; the group emits one collection per primary, and exactly
\* (candidates - primaries) candidates are in none of them.
C5_MinimumCostAssignment ==
    \A g \in MinCostCalls :
        LET o == g.outcome
            n == Len(o.primary)
        IN  /\ Len(o.yielded) = n
            /\ Len(o.emitted) = n
            /\ \A k \in 1..n :
                   /\ o.yielded[k] \in Range(o.candidates)
                   /\ PrimarySide(o.emitted[k], o.branch) = o.primary[k]
                   /\ OtherSide(o.emitted[k], o.branch) = o.yielded[k]
            /\ \A a, b \in 1..n : a # b => o.yielded[a] # o.yielded[b]
            /\ \A f \in Pairings(o.primary, o.candidates) :
                   TotalDistance(o.primary, o.yielded) <= TotalDistance(o.primary, f)
            /\ Cardinality({e \in Range(o.candidates) :
                               \A k \in 1..Len(o.emitted) :
                                   OtherSide(o.emitted[k], o.branch) # e})
                   = Len(o.candidates) - n

\* a finished run in which two explicit platforms were assigned two of
\* three stops, and another pairing is farther
C5_Witness ==
    /\ Done
    /\ \E g \in MinCostCalls :
           /\ g.outcome.branch = 1
           /\ Len(g.outcome.primary) = 2
           /\ Len(g.outcome.candidates) = 3
           /\ Len(collections) = 2
           /\ \E f \in Pairings(g.outcome.primary, g.outcome.candidates) :
                  TotalDistance(g.outcome.primary, g.outcome.yielded)
                      < TotalDistance(g.outcome.primary, f)

PlatformsOf(g) == {e \in Range(g.members) : bus_stops[e].public_transport = "platform"}
StopsOf(g) == {e \in Range(g.members) : bus_stops[e].public_transport = "stop_position"}
ExplicitOf(S) == {e \in S : bus_stops[e].highway = "bus_stop"}

\* C6: a group with no explicit platform, at least one explicit stop and
\* fewer platforms than explicit stops emits exactly one collection per
\* explicit stop, every one with platform = None.
C6_FewerPlatformsThanExplicitStops ==
    \A g \in Range(groupLog) :
        /\ ExplicitOf(PlatformsOf(g)) = {}
        /\ ExplicitOf(StopsOf(g)) # {}
        /\ Cardinality(PlatformsOf(g)) < Cardinality(ExplicitOf(StopsOf(g)))
        => LET em == g.outcome.emitted
           IN  /\ Len(em) = Cardinality(ExplicitOf(StopsOf(g)))
               /\ {em[k].stop : k \in 1..Len(em)} = ExplicitOf(StopsOf(g))
               /\ \A k \in 1..Len(em) : em[k].platform = None

\* a finished run with a group of one platform and three explicit stops
C6_Witness ==
    /\ Done
    /\ \E g \in Range(groupLog) :
           /\ ExplicitOf(PlatformsOf(g)) = {}
           /\ Cardinality(PlatformsOf(g)) = 1
           /\ Cardinality(ExplicitOf(StopsOf(g))) = 3
           /\ Len(g.outcome.emitted) = 3

\* C7: a warning is emitted exactly for the groups with both an explicit
\* platform and an explicit stop; such a group then emits exactly one
\* collection per explicit platform, in ascending platform id order, each
\* with a stop of the group, and none for an explicit stop as primary.
C7_AmbiguousTagging ==
    /\ warnings = [k \in 1..Len(warnings) |->
                      SelectSeq(groupLog, LAMBDA g : g.warned)[k].key]
    /\ Len(warnings) = Len(SelectSeq(groupLog, LAMBDA g : g.warned))
    /\ \A g \in Range(groupLog) :
           LET em == g.outcome.emitted
               both == ExplicitOf(PlatformsOf(g)) # {} /\ ExplicitOf(StopsOf(g)) # {}
           IN  /\ g.warned <=> both
               /\ both =>
                      /\ Len(em) = Cardinality(ExplicitOf(PlatformsOf(g)))
                      /\ {em[k].platform : k \in 1..Len(em)} = ExplicitOf(PlatformsOf(g))
                      /\ \A k \in 1..(Len(em) - 1) :
                             bus_stops[em[k].platform].id < bus_stops[em[k + 1].platform].id
                      /\ \A k \in 1..Len(em) : em[k].stop \in StopsOf(g)

\* a finished run that warned about a group whose two explicit platforms
\* come in the input against their id order
C7_Witness ==
    /\ Done
    /\ warnings # <<>>
    /\ \E g \in Range(groupLog) :
           /\ g.warned
           /\ \E a, b \in ExplicitOf(PlatformsOf(g)) :
                  a < b /\ bus_stops[a].id > bus_stops[b].id

NameOf(r) == bus_stops[r].groupName
InGroups(r, groups) == \E x \in 1..Len(groups) : r \in Range(groups[x].val)

\* N is name K followed by a space and a decimal number
NumberedOf(N, K) ==
    /\ Len(N) > Len(K) + 1
    /\ SubSeq(N, 1, Len(K)) = K
    /\ N[Len(K) + 1] = " "
    /\ \A k \in (Len(K) + 2)..Len(N) : N[k] \in DecimalChars

\* the names of area a, after the unnamed are discarded, that are the bare
\* prefix of a numbered name of the area
BarePrefixes(a) ==
    {K \in Range(Keys(a.kept)) : \E N \in Range(Keys(a.kept)) : NumberedOf(N, K)}

\* C8, as claimed: in the numbered-suffix merge of an area, whenever the
\* bare-prefix group is dropped, every record that was in it is a member of
\* at least one numbered group of that prefix; and whenever it is not
\* dropped, no record was appended to any numbered group.
C8_DroppedPrefixIsDistributed ==
    \A a \in Range(areaLog) : \A K \in BarePrefixes(a) :
        IF HasKey(a.final, K)
        THEN \A N \in Range(Keys(a.kept)) :
                 NumberedOf(N, K) => HasKey(a.final, N) /\ Get(a.final, N) = Get(a.kept, N)
        ELSE \A r \in Range(Get(a.kept, K)) :
                 \E N \in Range(Keys(a.final)) :
                     NumberedOf(N, K) /\ r \in Range(Get(a.final, N))

\* C10: in an area with a named record, the unnamed records are in no name
\* group and in no collection; in an area of unnamed records only, they
\* form the single group of the area, which is passed to the matcher;
\* named records are never discarded by this step.
C10_UnnamedDiscarded ==
    \A a \in Range(areaLog) :
        LET unnamed == {r \in Range(a.members) : NameOf(r) = <<>>}
            named == Range(a.members) \ unnamed
        IN  /\ \A r \in unnamed :
                   (~InGroups(r, a.kept) /\ ~InGroups(r, a.final)) <=> named # {}
            /\ named # {} => \A r \in unnamed : ~Referenced(r)
            /\ named = {} =>
                   /\ a.final = <<[key |-> <<>>, val |-> a.members]>>
                   /\ Done => \E g \in Range(groupLog) :
                                  g.area = a.area /\ g.key = <<>> /\ g.members = a.members
            /\ \A r \in named : InGroups(r, a.kept)

\* a finished run with an area whose unnamed record was discarded and, at
\* another place, an area of unnamed records only, which were matched
C10_Witness ==
    /\ Done
    /\ \E a, b \in Range(areaLog) :
           /\ \E r, q \in Range(a.members) :
                  NameOf(r) = <<>> /\ NameOf(q) # <<>> /\ ~InGroups(r, a.final)
           /\ \A r \in Range(b.members) : NameOf(r) = <<>> /\ Referenced(r)
           /\ \A r \in Range(a.members), q \in Range(b.members) : ~WithinRadius(r, q)

\* r was a candidate of a group and _assign did not hand it out
NotHandedOut(r) ==
    \E g \in Range(groupLog) :
        /\ g.outcome.branch \in {1, 2, 3}
        /\ r \in Range(g.outcome.candidates)
        /\ r \notin Range(g.outcome.yielded)

\* r is a surplus candidate of the minimum-cost case of _assign
Surplus(r) ==
    \E g \in MinCostCalls :
        r \in Range(g.outcome.candidates) /\ r \notin Range(g.outcome.yielded)

\* r is unnamed, in an area with a named record
DiscardedUnnamed(r) ==
    /\ NameOf(r) = <<>>
    /\ \E a \in Range(areaLog) :
           r \in Range(a.members) /\ \E q \in Range(a.members) : NameOf(q) # <<>>

\* the group of r is a bare-prefix group, and r is left in no group
LostWithPrefix(r) ==
    \E a \in Range(areaLog) :
        /\ r \in Range(a.members)
        /\ NameOf(r) \in BarePrefixes(a)
        /\ ~InGroups(r, a.final)

\* r is implicit, in a group whose primaries are the explicit records of
\* its category
ImplicitBesideExplicit(r) ==
    /\ bus_stops[r].highway # "bus_stop"
    /\ \E g \in Range(groupLog) :
           /\ r \in Range(g.members)
           /\ \/ r \in PlatformsOf(g) /\ ExplicitOf(PlatformsOf(g)) # {}
              \/ /\ r \in StopsOf(g)
                 /\ ExplicitOf(PlatformsOf(g)) = {}
                 /\ ExplicitOf(StopsOf(g)) # {}

\* C2, as claimed: every input record is referenced by a returned
\* collection, except the surplus candidates of the minimum-cost case.
C2_OnlySurplusDropped ==
    Done => \A r \in Indices : Referenced(r) \/ Surplus(r)

\* C2, amended: every input record is referenced by a returned collection,
\* except the candidates _assign does not hand out, the unnamed records of
\* an area with a named record, the records of a dropped bare-prefix group
\* that no numbered group took, and the implicit records of a group whose
\* primaries are the explicit records of their category.
C2_DroppedRecords ==
    Done => \A r \in Indices :
                \/ Referenced(r)
                \/ NotHandedOut(r)
                \/ DiscardedUnnamed(r)
                \/ LostWithPrefix(r)
                \/ ImplicitBesideExplicit(r)

\* a finished run that returned collections and dropped an unnamed record
\* and an implicit record beside an explicit one
C2_Witness ==
    /\ Done
    /\ collections # <<>>
    /\ \E r \in Indices : ~Referenced(r) /\ DiscardedUnnamed(r)
    /\ \E r \in Indices : ~Referenced(r) /\ ImplicitBesideExplicit(r)

\* r was handed out by _assign with element_reuse=True: a stop in the
\* explicit-platform branch or in the implicit branch
HandedOutWithReuse(r) ==
    \E g \in Range(groupLog) :
        /\ g.outcome.branch \in {1, 3}
        /\ g.outcome.reuse
        /\ r \in Range(g.outcome.yielded)

\* r was copied from its bare-prefix group into several numbered groups
CopiedToSeveral(r) ==
    \E a \in Range(areaLog) :
        /\ NameOf(r) \in BarePrefixes(a)
        /\ Cardinality({N \in Range(Keys(a.final)) :
                           N # NameOf(r) /\ r \in Range(Get(a.final, N))}) > 1

\* C3: a record is in more than one collection only if _assign handed it
\* out with element_reuse=True or the numbered-suffix merge copied it into
\* several numbered groups; every other record, in particular a primary or a
\* platform assigned in the explicit-stop branch, is in at most one.
C3_ReuseOnlyWhereDocumented ==
    \A r \in Indices : Uses(r) > 1 => HandedOutWithReuse(r) \/ CopiedToSeveral(r)

\* a finished run where a record copied into two numbered groups is in two
\* collections without having been handed out by _assign
C3_Witness ==
    /\ Done
    /\ \E r \in Indices : Uses(r) > 1 /\ CopiedToSeveral(r) /\ ~HandedOutWithReuse(r)

====
